---------------------------- MODULE Spec2Model ----------------------------
(***************************************************************************)
(* A model of the rs-agents runtime: the MockClock wakeup registry         *)
(* (src/src/timer.rs) and the Output / Timer / Input adapters driven by    *)
(* Agent::poll (src/src/lib.rs), with the callbacks of the two example     *)
(* agents of src/tests/agents_test.rs.                                     *)
(*                                                                         *)
(* Instants and durations are natural numbers of time units.  Rust's 0-    *)
(* based VecDeque index i is position i + 1 of a TLA+ sequence.  An        *)
(* Option is a sequence of length at most one: None is << >>, Some(x) is   *)
(* << x >>.                                                                *)
(***************************************************************************)
EXTENDS Integers, Sequences, FiniteSets, TLC

VARIABLES
    current,        \* MockClockState.current
    activations,    \* MockClockState.activations, a sequence of Activation
    fired,          \* history: the activations notified by the latest advance, in notification order
    registered,     \* history: the number of add_activation calls so far
    outputs,        \* Agent.outputs: the OutputState of each Output
    sinks,          \* the Sender behind each Output: what start_send accepted, what was lost
    sent,           \* history: the values handed to Output::send, per Output, in call order
    timers,         \* Agent.timers
    inputs,         \* Agent.inputs
    sources,        \* the Receiver behind each Input: its queued items, whether its senders are gone
    srcSent,        \* history: the values sent into each source, in order
    state,          \* Agent.state, the shared state S of the callbacks
    pc,             \* where Agent::poll stands: idle, outputs, timers, inputs
    idx,            \* the loop index of the running for-loop of Agent::poll
    finished,       \* the local `finished` of Agent::poll
    result,         \* what the latest Agent::poll returned: none, NotReady, Ready
    woken,          \* whether the Agent's task has been notified since its latest poll began
    cycle,          \* history: what the current (or latest) poll cycle polled, in order
    state0          \* history: Agent.state when the current (or latest) poll cycle began

clockVars == <<current, activations, fired, registered>>
outputVars == <<outputs, sinks, sent>>
timerVars == <<timers>>
inputVars == <<inputs, sources, srcSent>>
pollVars == <<pc, idx, finished, result>>
vars == <<current, activations, fired, registered, outputs, sinks, sent, timers, inputs,
          sources, srcSent, state, pc, idx, finished, result, woken, cycle, state0>>

(***************************************************************************)
(* Bounds of the model.                                                    *)
(***************************************************************************)
MaxTime == 4        \* instants are 0 .. MaxTime
MaxRegs == 4        \* add_activation calls made directly on a ClockHandle

Instants == 0 .. MaxTime
Durations == 0 .. MaxTime

None == << >>
Some(x) == << x >>

(***************************************************************************)
(* src/src/timer.rs                                                        *)
(***************************************************************************)

\* struct Activation, with two history fields: seq numbers the registrations,
\* by names the Timer that registered (0: registered on the handle directly).
Activation(when, task, seq, by) == [when |-> when, task |-> task, seq |-> seq, by |-> by]

\* VecDeque::insert(index, value), index 0-based
VecInsert(list, index, a) ==
    SubSeq(list, 1, index) \o <<a>> \o SubSeq(list, index + 1, Len(list))

\* the while loop of insert_activation: the final i1
RECURSIVE binary_search(_, _, _, _)
binary_search(list, when, i0, i1) ==
    IF i1 - i0 > 1
    THEN LET i == (i0 + i1) \div 2
         IN  IF list[i + 1].when < when
             THEN binary_search(list, when, i, i1)
             ELSE binary_search(list, when, i0, i)
    ELSE i1

\* the quick check of insert_activation: append unless the back is later than `when`
append_at_end(list, when) ==
    ~(list # << >> /\ list[Len(list)].when > when)

insert_activation(list, a) ==
    IF append_at_end(list, a.when)
    THEN Append(list, a)
    ELSE VecInsert(list, binary_search(list, a.when, 0, Len(list)), a)

\* a slip: advance notifies every registered wakeup, due or not
due_front_all(list, cur) == Len(list)

\* the loop of MockClock::advance: how many activations it pops off the front
RECURSIVE due_front(_, _)
due_front(list, cur) ==
    IF list # << >> /\ Head(list).when <= cur
    THEN 1 + due_front(Tail(list), cur)
    ELSE 0

\* MockClock::advance on the clock's state; task.notify() wakes the Agent's task
advance(duration) ==
    LET cur == current + duration
        n == due_front(activations, cur)
    IN  /\ current' = cur
        /\ fired' = SubSeq(activations, 1, n)
        /\ activations' = SubSeq(activations, n + 1, Len(activations))
        /\ woken' = (woken \/ \E k \in 1 .. n : activations[k].task = "agent")

\* ClockState::add_activation for MockClockState
add_activation(task, when, by) ==
    /\ activations' = insert_activation(activations, Activation(when, task, registered + 1, by))
    /\ registered' = registered + 1

(***************************************************************************)
(* The Sender behind an Output (futures' Sink, outside this repository),   *)
(* by its contract: poll_complete answers Ready, NotReady or Err, and      *)
(* start_send answers Ready (the value is taken), NotReady (the value is   *)
(* handed back and the task will be notified) or Err (the value is gone).  *)
(* A sink whose `faulty` is FALSE never answers Err.  History fields:       *)
(* accepted, the values start_send took; lost, the values gone with an     *)
(* Err; handed, the values passed to start_send and not handed back, in    *)
(* call order; outstanding, the values taken and not yet completed;        *)
(* overlapped, whether start_send was ever called while one was.           *)
(***************************************************************************)
MaxVal == 2         \* values handed to send or sent into a source are 1 .. MaxVal
MaxSends == 3       \* Output::send calls made directly on a user-held handle

Values == 1 .. MaxVal

NewSink(faulty) ==
    [accepted |-> << >>, lost |-> << >>, handed |-> << >>, outstanding |-> 0,
     overlapped |-> FALSE, parked |-> FALSE, faulty |-> faulty,
     channel |-> None, taken |-> 0]

SinkResponses(sink) == IF sink.faulty THEN {"Ready", "NotReady", "Err"} ELSE {"Ready", "NotReady"}

\* The Sender of futures' mpsc channel(buffer), as the tests build it, the one Sender
\* of its channel: the channel holds up to buffer + 1 values; start_send takes a
\* value while there is room and answers NotReady when there is none; poll_complete
\* never fails, and is Ready at once unless the channel is filled beyond `buffer`.
\* `taken` counts the values the Receiver has taken out of the channel.
NewChannel(buffer) == [NewSink(FALSE) EXCEPT !.channel = Some(buffer)]

in_channel(sink) == Len(sink.accepted) - sink.taken

CompleteResponses(sink) ==
    IF sink.channel = None THEN SinkResponses(sink)
    ELSE IF in_channel(sink) <= sink.channel[1] THEN {"Ready"} ELSE {"Ready", "NotReady"}

StartResponses(sink) ==
    IF sink.channel = None THEN SinkResponses(sink)
    ELSE IF in_channel(sink) <= sink.channel[1] THEN {"Ready"} ELSE {"NotReady"}

\* Sink::poll_complete answering rc
poll_complete(sink, rc) ==
    CASE rc = "Ready" -> [sink EXCEPT !.outstanding = 0, !.parked = FALSE]
      [] rc = "NotReady" -> [sink EXCEPT !.parked = TRUE]
      [] OTHER -> [sink EXCEPT !.outstanding = 0, !.parked = FALSE,
                               !.lost = IF sink.outstanding > 0
                                        THEN Append(@, sink.accepted[Len(sink.accepted)])
                                        ELSE @]

\* Sink::start_send(v) answering rs
start_send(sink, v, rs) ==
    LET called == [sink EXCEPT !.overlapped = @ \/ sink.outstanding > 0]
    IN  CASE rs = "Ready" -> [called EXCEPT !.accepted = Append(@, v), !.handed = Append(@, v),
                                            !.outstanding = @ + 1, !.parked = FALSE]
          [] rs = "NotReady" -> [called EXCEPT !.parked = TRUE]
          [] OTHER -> [called EXCEPT !.lost = Append(@, v), !.handed = Append(@, v),
                                     !.parked = FALSE]

(***************************************************************************)
(* src/src/lib.rs: Output                                                  *)
(***************************************************************************)
NewOutputState == [sender |-> Some("tx"), send_in_progress |-> FALSE, buffer |-> << >>]

\* a slip: the value handed back is queued behind the values that followed it
push_front_as_push_back(buffer, v) == Append(buffer, v)

\* VecDeque::push_front: where a value the sink handed back goes
push_front(buffer, v) == <<v>> \o buffer

\* a slip: a send that is not complete yet is taken for complete
finish_send_not_waiting(out, sink, rc) ==
    IF out.send_in_progress
    THEN [out |-> [out EXCEPT !.send_in_progress = FALSE],
          sink |-> poll_complete(sink, rc),
          blocked |-> FALSE,
          complete |-> rc]
    ELSE [out |-> out, sink |-> sink, blocked |-> FALSE, complete |-> "none"]

\* OutputState::poll, the first half: try to finish the current send.
\* `blocked` is the early return of OutputResult::NotReady.
finish_send(out, sink, rc) ==
    IF out.send_in_progress
    THEN [out |-> [out EXCEPT !.send_in_progress = (rc = "NotReady")],
          sink |-> poll_complete(sink, rc),
          blocked |-> (rc = "NotReady"),
          complete |-> rc]
    ELSE [out |-> out, sink |-> sink, blocked |-> FALSE, complete |-> "none"]

\* a slip: the value whose start_send failed is put back to be tried again
failed_start_requeued(popped, v) == push_front(popped, v)

\* `Err(_) => ()`: the buffer after a start_send that failed on value v
failed_start(popped, v) == popped

\* OutputState::poll, the second half: initiate a new send.
initiate_send(out, sink, rs) ==
    IF ~out.send_in_progress /\ out.buffer # << >>
    THEN LET v == Head(out.buffer)
             popped == Tail(out.buffer)
         IN  [out |-> CASE rs = "Ready" -> [out EXCEPT !.buffer = popped, !.send_in_progress = TRUE]
                        [] rs = "NotReady" -> [out EXCEPT !.buffer = push_front(popped, v)]
                        [] OTHER -> [out EXCEPT !.buffer = failed_start(popped, v)],
              sink |-> start_send(sink, v, rs),
              start |-> rs]
    ELSE [out |-> out, sink |-> sink, start |-> "none"]

\* OutputState::poll: the new OutputState and sink, the OutputResult, and for the
\* history what the sink answered to each call made ("none": not called).
OutputState_poll(out, sink, rc, rs) ==
    IF out.sender = None
    THEN [out |-> out, sink |-> sink, res |-> "Closed", complete |-> "none", start |-> "none"]
    ELSE LET f == finish_send(out, sink, rc)
         IN  IF f.blocked
             THEN [out |-> f.out, sink |-> f.sink, res |-> "NotReady",
                   complete |-> f.complete, start |-> "none"]
             ELSE LET i == initiate_send(f.out, f.sink, rs)
                  IN  [out |-> i.out, sink |-> i.sink, res |-> "Ready",
                       complete |-> f.complete, start |-> i.start]

\* Output::send on the state shared by every handle of Output o
Output_send(o, value, rc, rs) ==
    LET pushed == [outputs[o] EXCEPT !.buffer = Append(@, value)]
        p == OutputState_poll(pushed, sinks[o], rc, rs)
    IN  /\ outputs' = [outputs EXCEPT ![o] = p.out]
        /\ sinks' = [sinks EXCEPT ![o] = p.sink]
        /\ sent' = [sent EXCEPT ![o] = Append(@, value)]

(***************************************************************************)
(* src/tests/agents_test.rs: the callbacks.  The shared state S holds the  *)
(* Periodic agent's count and, as counting callbacks, how often each       *)
(* callback ran.  The state's Output handle is Output 1.                   *)
(***************************************************************************)
NewState(nTimers, nInputs) ==
    [count |-> 0,
     timer_calls |-> [t \in 1 .. nTimers |-> 0],
     item_calls |-> [i \in 1 .. nInputs |-> 0],
     end_calls |-> [i \in 1 .. nInputs |-> 0]]

\* the Output whose handle the state holds for the Timers' callback, and for the
\* Inputs' callbacks (the last Output built)
TimerOutput == 1
InputOutput == Len(outputs)

\* self.output.send(value) from inside a callback, on Output o
callback_send(o, value, rc, rs) ==
    IF o \in 1 .. Len(outputs)
    THEN Output_send(o, value, rc, rs)
    ELSE UNCHANGED outputVars

\* Periodic::on_timer, as the callback of Timer t
on_timer(t, rc, rs) ==
    /\ callback_send(TimerOutput, state.count, rc, rs)
    /\ state' = [state EXCEPT !.count = @ + 1, !.timer_calls[t] = @ + 1]

\* Passthrough::on_input, as the item callback of Input i
on_input(i, val, rc, rs) ==
    /\ callback_send(InputOutput, val, rc, rs)
    /\ state' = [state EXCEPT !.item_calls[i] = @ + 1]

\* Passthrough::on_input_end, as the end callback of Input i
on_input_end(i) ==
    /\ state' = [state EXCEPT !.end_calls[i] = @ + 1]
    /\ UNCHANGED outputVars

\* the answers the sink of Output o may give to the poll_complete and to the
\* start_send of a callback's send
CallbackComplete(o) == IF o \in 1 .. Len(sinks) THEN CompleteResponses(sinks[o]) ELSE {"Ready"}

CallbackStart(o) == IF o \in 1 .. Len(sinks) THEN StartResponses(sinks[o]) ELSE {"Ready"}

(***************************************************************************)
(* src/src/lib.rs: Timer                                                   *)
(***************************************************************************)
NewTimer(period) == [on |-> TRUE, period |-> period, next_activation |-> None]

\* a slip: the period is added once, however many periods have passed
catch_up_once(next, now, period) == next + period

\* a slip: the next activation is counted from the instant of the poll
catch_up_from_now(next, now, period) == now + period

\* `while now >= next { next = next + self.period }`
RECURSIVE catch_up(_, _, _)
catch_up(next, now, period) ==
    IF now >= next THEN catch_up(next + period, now, period) ELSE next

\* history: how many activation instants of the timer have passed at `now`
Missed(tm, now) ==
    IF tm.next_activation # None /\ now >= tm.next_activation[1]
    THEN 1 + ((now - tm.next_activation[1]) \div tm.period)
    ELSE 0

Timer_result(tm) == IF tm.on THEN "Ready" ELSE "Closed"

\* enum TimerRun: what a timer callback may return
TimerRun == {"Continue", "Stop"}

\* a slip: a callback that returns Stop switches the Timer off
on_after_stop(on, run) == on /\ run = "Continue"

\* `(self.on_timer)(state);`: what the callback returns is dropped, and nothing
\* else assigns self.on
on_after(on, run) == on

\* a slip: the Timer fires only once its instant lies in the past
is_due_late(now, next) == now > next

\* `if now >= next`
is_due(now, next) == now >= next

\* whether this poll of the Timer runs the callback
Fires(tm, now) ==
    tm.on /\ tm.next_activation # None /\ is_due(now, tm.next_activation[1])

\* Timer::poll of Timer t, whose callback, if it runs, returns `run`
Timer_poll(t, run) ==
    LET tm == timers[t]
        now == current
    IN  IF ~tm.on
        THEN UNCHANGED <<timers, activations, registered, state, outputVars>>
        ELSE IF tm.next_activation = None
        THEN LET next == now + tm.period
             IN  /\ timers' = [timers EXCEPT ![t].next_activation = Some(next)]
                 /\ add_activation("agent", next, t)
                 /\ UNCHANGED <<state, outputVars>>
        ELSE LET next == tm.next_activation[1]
             IN  IF is_due(now, next)
                 THEN /\ \E rc \in CallbackComplete(TimerOutput),
                               rs \in CallbackStart(TimerOutput) :
                            on_timer(t, rc, rs)
                      /\ timers' = [timers EXCEPT
                                        ![t].on = on_after(tm.on, run),
                                        ![t].next_activation =
                                            Some(catch_up(next, now, tm.period))]
                      /\ add_activation("agent", catch_up(next, now, tm.period), t)
                 ELSE UNCHANGED <<timers, activations, registered, state, outputVars>>

(***************************************************************************)
(* The Receiver behind an Input (futures' Stream, outside this             *)
(* repository): poll hands over the oldest queued item, reports the end of *)
(* the stream once the senders are gone and the queue is empty (again on   *)
(* every later poll), and is otherwise NotReady.  An mpsc Receiver never   *)
(* answers Err, which Input::poll would treat as it treats NotReady.       *)
(***************************************************************************)
MaxQueue == 3       \* the items a source holds at once
MaxItems == 3       \* the items sent into one source over a run

\* the values sent into a source are told apart by numbering them: the code never
\* looks into a value
NextValue(history) == Len(history) + 1

NewSource == [queue |-> << >>, closed |-> FALSE]

Receiver_poll(src) ==
    IF src.queue # << >>
    THEN [kind |-> "item", value |-> Head(src.queue), src |-> [src EXCEPT !.queue = Tail(@)]]
    ELSE IF src.closed THEN [kind |-> "end", src |-> src]
    ELSE [kind |-> "NotReady", src |-> src]

(***************************************************************************)
(* src/src/lib.rs: Input                                                   *)
(***************************************************************************)
NewInput == [receiver |-> Some("rx")]

Input_result(inp) == IF inp.receiver # None THEN "Ready" ELSE "Closed"

\* what Input::poll leaves in self.receiver after the source reported `kind`
receiver_after(inp, kind) == inp.receiver

\* Input::poll of Input i
Input_poll(i) ==
    IF inputs[i].receiver # None
    THEN LET r == Receiver_poll(sources[i])
         IN  /\ sources' = [sources EXCEPT ![i] = r.src]
             /\ inputs' = [inputs EXCEPT ![i].receiver = receiver_after(inputs[i], r.kind)]
             /\ CASE r.kind = "item" ->
                        \E rc \in CallbackComplete(InputOutput),
                           rs \in CallbackStart(InputOutput) :
                            on_input(i, r.value, rc, rs)
                  [] r.kind = "end" -> on_input_end(i)
                  [] OTHER -> UNCHANGED <<state, outputVars>>
    ELSE UNCHANGED <<inputs, sources, state, outputVars>>

(***************************************************************************)
(* src/src/lib.rs: Agent::poll, one component per step.  pc and idx say    *)
(* which component the running for-loop polls next; nothing else runs      *)
(* while a poll is under way (one thread, cooperative scheduling).         *)
(***************************************************************************)
MaxEndCalls == 2    \* polls are counted no further than this many end callbacks of one Input

\* a slip: the Inputs' loop is placed before the Timers' loop
next_phase_inputs_first(phase) ==
    CASE phase = "outputs" -> "inputs"
      [] phase = "inputs" -> "timers"
      [] OTHER -> "idle"

\* the order of the three for-loops of Agent::poll
next_phase(phase) ==
    CASE phase = "outputs" -> "timers"
      [] phase = "timers" -> "inputs"
      [] OTHER -> "idle"

phase_size(phase) ==
    CASE phase = "outputs" -> Len(outputs)
      [] phase = "timers" -> Len(timers)
      [] phase = "inputs" -> Len(inputs)
      [] OTHER -> 0

\* the component polled next when loop `phase` stands at index k: the loops with
\* nothing left are passed over; <<"idle", 0>> is the final match on `finished`
RECURSIVE position(_, _)
position(phase, k) ==
    IF phase = "idle" THEN <<"idle", 0>>
    ELSE IF k <= phase_size(phase) THEN <<phase, k>>
    ELSE position(next_phase(phase), 1)

\* a slip: the final match is left out and the poll never reports completion
poll_result_never_ready(fin) == "NotReady"

\* `match finished { false => Ok(Async::NotReady), true => Ok(Async::Ready(())) }`
poll_result(fin) == IF fin THEN "Ready" ELSE "NotReady"

\* a slip: a blocked Output does not end the cycle
halts_cycle_never(res) == FALSE

\* whether Agent::poll returns at once on this OutputResult
halts_cycle(res) == res = "NotReady"

\* the poll moves on to position(phase, k), its `finished` being fin
Continue(phase, k, fin) ==
    LET p == position(phase, k)
    IN  /\ pc' = p[1]
        /\ idx' = p[2]
        /\ finished' = (p[1] = "idle" \/ fin)
        /\ result' = IF p[1] = "idle" THEN poll_result(fin) ELSE "none"

\* the executor polls the Agent: Agent::poll begins
PollBegin ==
    /\ pc = "idle"
    /\ result # "Ready"
    /\ \A i \in 1 .. Len(inputs) : state.end_calls[i] < MaxEndCalls
    /\ Continue("outputs", 1, TRUE)
    /\ woken' = FALSE
    /\ cycle' = << >>
    /\ state0' = state
    /\ UNCHANGED <<clockVars, outputVars, timerVars, inputVars, state>>

\* `for o in self.outputs.iter_mut()`: one iteration
PollOutput ==
    /\ pc = "outputs"
    /\ \E rc \in CompleteResponses(sinks[idx]), rs \in StartResponses(sinks[idx]) :
          LET p == OutputState_poll(outputs[idx], sinks[idx], rc, rs)
          IN  /\ outputs' = [outputs EXCEPT ![idx] = p.out]
              /\ sinks' = [sinks EXCEPT ![idx] = p.sink]
              /\ cycle' = Append(cycle, [kind |-> "output", idx |-> idx, res |-> p.res,
                                         complete |-> p.complete, start |-> p.start])
              /\ IF halts_cycle(p.res)
                 THEN /\ pc' = "idle"
                      /\ idx' = 0
                      /\ result' = "NotReady"
                      /\ finished' = TRUE
                 ELSE Continue("outputs", idx + 1, finished)
    /\ UNCHANGED <<clockVars, sent, timerVars, inputVars, state, state0, woken>>

\* `for t in self.timers.iter_mut()`: one iteration
PollTimer ==
    /\ pc = "timers"
    /\ \E run \in TimerRun :
          /\ Timer_poll(idx, run)
          /\ cycle' = Append(cycle, [kind |-> "timer", idx |-> idx,
                                     res |-> Timer_result(timers[idx]),
                                     missed |-> Missed(timers[idx], current),
                                     run |-> IF Fires(timers[idx], current)
                                             THEN run ELSE "none",
                                     due |-> timers[idx].next_activation])
    /\ Continue("timers", idx + 1, finished /\ Timer_result(timers[idx]) = "Closed")
    /\ UNCHANGED <<current, fired, inputVars, state0, woken>>

\* `for i in self.inputs.iter_mut()`: one iteration
PollInput ==
    /\ pc = "inputs"
    /\ Input_poll(idx)
    /\ cycle' = Append(cycle, [kind |-> "input", idx |-> idx, res |-> Input_result(inputs[idx]),
                               ready |-> Len(sources[idx].queue),
                               closed |-> sources[idx].closed])
    /\ Continue("inputs", idx + 1, finished /\ Input_result(inputs[idx]) = "Closed")
    /\ UNCHANGED <<clockVars, timerVars, srcSent, state0, woken>>

(***************************************************************************)
(* What happens between polls.  The history of the latest poll cycle is    *)
(* kept until the next event.                                              *)
(***************************************************************************)
BetweenPolls ==
    /\ pc = "idle"
    /\ cycle' = << >>
    /\ state0' = state
    /\ UNCHANGED pollVars

\* a test calls MockClock::advance
ClockAdvance ==
    /\ BetweenPolls
    /\ \E d \in Durations :
          /\ current + d <= MaxTime
          /\ advance(d)
    /\ UNCHANGED <<registered, outputVars, timerVars, inputVars, state>>

\* a task registers a wakeup on a ClockHandle, as Timer::poll does: not in the past
AddActivation ==
    /\ BetweenPolls
    /\ registered < MaxRegs
    /\ \E when \in Instants :
          /\ when >= current
          /\ add_activation("test", when, 0)
    /\ UNCHANGED <<current, fired, outputVars, timerVars, inputVars, state, woken>>

\* the holder of Output o's handle calls send
UserSend ==
    /\ BetweenPolls
    /\ \E o \in 1 .. Len(outputs) :
          /\ Len(sent[o]) < MaxSends
          /\ \E v \in Values, rc \in CompleteResponses(sinks[o]), rs \in StartResponses(sinks[o]) :
                Output_send(o, v, rc, rs)
    /\ UNCHANGED <<clockVars, timerVars, inputVars, state, woken>>

\* the sink of a parked Output notifies the Agent's task
SinkNotify ==
    /\ BetweenPolls
    /\ \E o \in 1 .. Len(sinks) :
          /\ sinks[o].parked
          /\ sinks' = [sinks EXCEPT ![o].parked = FALSE]
    /\ woken' = TRUE
    /\ UNCHANGED <<clockVars, outputs, sent, timerVars, inputVars, state>>

\* a value is sent into the source of an Input, which notifies the Agent's task
SourceSend ==
    /\ BetweenPolls
    /\ \E i \in 1 .. Len(sources) :
          /\ ~sources[i].closed
          /\ Len(sources[i].queue) < MaxQueue
          /\ Len(srcSent[i]) < MaxItems
          /\ sources' = [sources EXCEPT ![i].queue = Append(@, NextValue(srcSent[i]))]
          /\ srcSent' = [srcSent EXCEPT ![i] = Append(@, NextValue(srcSent[i]))]
    /\ woken' = TRUE
    /\ UNCHANGED <<clockVars, outputVars, timerVars, inputs, state>>

\* the last sender of a source is dropped, which notifies the Agent's task
SourceClose ==
    /\ BetweenPolls
    /\ \E i \in 1 .. Len(sources) :
          /\ ~sources[i].closed
          /\ sources' = [sources EXCEPT ![i].closed = TRUE]
    /\ woken' = TRUE
    /\ UNCHANGED <<clockVars, outputVars, timerVars, inputs, srcSent, state>>

(***************************************************************************)
(* Builder and MockClock::new: the state after construction of an Agent    *)
(* with nOut Outputs, one Timer per period and nIn Inputs, spawned and not *)
(* yet polled.                                                             *)
(***************************************************************************)
BuildWith(nOut, sink, periods, nIn) ==
    /\ current = 0
    /\ activations = << >>
    /\ fired = << >>
    /\ registered = 0
    /\ outputs = [o \in 1 .. nOut |-> NewOutputState]
    /\ sinks = [o \in 1 .. nOut |-> sink]
    /\ sent = [o \in 1 .. nOut |-> << >>]
    /\ timers = [t \in 1 .. Len(periods) |-> NewTimer(periods[t])]
    /\ inputs = [i \in 1 .. nIn |-> NewInput]
    /\ sources = [i \in 1 .. nIn |-> NewSource]
    /\ srcSent = [i \in 1 .. nIn |-> << >>]
    /\ state = NewState(Len(periods), nIn)
    /\ pc = "idle"
    /\ idx = 0
    /\ finished = TRUE
    /\ result = "none"
    /\ woken = TRUE
    /\ cycle = << >>
    /\ state0 = NewState(Len(periods), nIn)

\* the same, each Output on a sink that may or may not fail
Build(nOut, faulty, periods, nIn) == BuildWith(nOut, NewSink(faulty), periods, nIn)

(***************************************************************************)
(* SpecClock: a MockClock and the wakeups registered on its handles.       *)
(***************************************************************************)
InitClock == Build(0, FALSE, << >>, 0)

NextClock == AddActivation \/ ClockAdvance

SpecClock == InitClock /\ [][NextClock]_vars

(***************************************************************************)
(* Spec: an Agent of Outputs and Timers on one MockClock, polled by its    *)
(* executor at any time between the events of its environment.  One or two *)
(* Outputs, whose sinks may or may not fail; one Timer, or two of          *)
(* different periods.                                                      *)
(***************************************************************************)
TimerPeriods == {<<1>>, <<2>>, <<2, 1>>}

Init ==
    \E nOut \in {1, 2}, faulty \in BOOLEAN, periods \in TimerPeriods :
        Build(nOut, faulty, periods, 0)

Next ==
    \/ PollBegin
    \/ PollOutput
    \/ PollTimer
    \/ ClockAdvance
    \/ SinkNotify

Spec == Init /\ [][Next]_vars

(***************************************************************************)
(* SpecInputs: an Agent of Outputs and Inputs, polled at any time.         *)
(***************************************************************************)
InitInputs ==
    \E nOut \in {1, 2}, faulty \in BOOLEAN :
        Build(nOut, faulty, << >>, 1)

NextInputs ==
    \/ PollBegin
    \/ PollOutput
    \/ PollInput
    \/ SinkNotify
    \/ SourceSend
    \/ SourceClose

SpecInputs == InitInputs /\ [][NextInputs]_vars

(***************************************************************************)
(* SpecAgent: an Agent of two Outputs, a Timer and an Input, polled at any *)
(* time.                                                                   *)
(***************************************************************************)
InitAgent == Build(2, FALSE, <<1>>, 1)

NextAgent ==
    \/ PollBegin
    \/ PollOutput
    \/ PollTimer
    \/ PollInput
    \/ ClockAdvance
    \/ SinkNotify
    \/ SourceSend
    \/ SourceClose

SpecAgent == InitAgent /\ [][NextAgent]_vars

(***************************************************************************)
(* SpecOutput: an Output whose handle a user holds and sends on, in an     *)
(* Agent kept alive by an Input on which nothing arrives.                  *)
(***************************************************************************)
InitOutput == \E faulty \in BOOLEAN : Build(1, faulty, << >>, 1)

NextOutput ==
    \/ PollBegin
    \/ PollOutput
    \/ PollInput
    \/ UserSend
    \/ SinkNotify

SpecOutput == InitOutput /\ [][NextOutput]_vars

(***************************************************************************)
(* SpecPassthrough: the Passthrough agent of the tests, one Input and one  *)
(* Output on channels that do not fail, polled by its executor only after  *)
(* its task was notified.                                                  *)
(***************************************************************************)
InitPassthrough == Build(1, FALSE, << >>, 1)

\* the executor polls the Agent because its task was notified
ExecutorTurn == woken /\ PollBegin

NextPassthrough ==
    \/ ExecutorTurn
    \/ PollOutput
    \/ PollInput
    \/ SinkNotify
    \/ SourceSend
    \/ SourceClose

SpecPassthrough == InitPassthrough /\ [][NextPassthrough]_vars

(***************************************************************************)
(* SpecCompletion: Agents of an Output alone, of an Output and a Timer, and *)
(* of an Output and an Input, whose Output handle a user sends on, polled  *)
(* at any time until they report completion.                               *)
(***************************************************************************)
Shapes == {<<1, << >>, 0>>, <<1, <<3>>, 0>>, <<1, << >>, 1>>}

InitCompletion ==
    \E shape \in Shapes :
        Build(shape[1], FALSE, shape[2], shape[3])

NextCompletion ==
    \/ PollBegin
    \/ PollOutput
    \/ PollTimer
    \/ PollInput
    \/ UserSend
    \/ SinkNotify
    \/ ClockAdvance
    \/ SourceClose

SpecCompletion == InitCompletion /\ [][NextCompletion]_vars

(***************************************************************************)
(* SpecPeriodic: the test `periodic`.  The Periodic agent, a Timer of      *)
(* period 1 and an Output on channel(1), is spawned and polled once; then  *)
(* each round advances the clock by 1, turns the executor once and takes   *)
(* one value from the channel.  The test is at its turn while the Agent's  *)
(* task is notified, then at its receive while it has taken fewer values   *)
(* than rounds begun, and else at the advance of the next round.           *)
(***************************************************************************)
MaxRounds == 24     \* the rounds of the test's loop (the test runs 10)

InitPeriodic == BuildWith(1, NewChannel(1), <<1>>, 0)

\* `clock.advance(Duration::new(1, 0))`
TestAdvance ==
    /\ BetweenPolls
    /\ result # "none"
    /\ ~woken
    /\ sinks[1].taken = current
    /\ current < MaxRounds
    /\ advance(1)
    /\ UNCHANGED <<registered, outputVars, timerVars, inputVars, state>>

\* `core.run(rx.into_future())`: the Receiver takes the oldest value out of the
\* channel, which notifies a Sender that was refused for want of room
TestReceive ==
    /\ BetweenPolls
    /\ ~woken
    /\ sinks[1].taken < current
    /\ in_channel(sinks[1]) >= 1
    /\ sinks' = [sinks EXCEPT ![1].taken = @ + 1, ![1].parked = FALSE]
    /\ woken' = sinks[1].parked
    /\ UNCHANGED <<clockVars, outputs, sent, timerVars, inputVars, state>>

NextPeriodic ==
    \/ ExecutorTurn
    \/ PollOutput
    \/ PollTimer
    \/ TestAdvance
    \/ TestReceive

SpecPeriodic == InitPeriodic /\ [][NextPeriodic]_vars

(***************************************************************************)
(* The claims.                                                             *)
(***************************************************************************)

\* C1: the wakeups one advance notifies are notified in ascending order of
\* instant: none is notified after a wakeup of a later instant.
C1_WakeupOrdering ==
    \A i, j \in 1 .. Len(fired) : i < j => fired[i].when <= fired[j].when

\* no wakeup of the registry is due, and each wakeup the latest advance notified was
NoDueWakeupLeft ==
    /\ \A k \in 1 .. Len(activations) : activations[k].when > current
    /\ \A k \in 1 .. Len(fired) : fired[k].when <= current

\* C2: when advance returns, no wakeup whose instant is <= the new current
\* instant is left in the registry, and each wakeup it notified was due.
C2_NoDueWakeupLeft == [][ClockAdvance => NoDueWakeupLeft']_vars

\* the entries of the cycle history of one kind
Polled(kind) == {k \in 1 .. Len(cycle) : cycle[k].kind = kind}

\* C3: as long as the sink has not failed, the values its start_send accepted,
\* followed by the values still buffered, are the values handed to send, in call
\* order: none duplicated, skipped or reordered; a drained Output has handed over
\* every one of them.
C3_OutputFifo ==
    \A o \in 1 .. Len(outputs) :
        sinks[o].lost = << >> =>
            /\ sinks[o].accepted \o outputs[o].buffer = sent[o]
            /\ outputs[o].buffer = << >> => sinks[o].accepted = sent[o]

\* C3's case: three sends, not all of one value, all handed over in order.
C3_Witness ==
    /\ Len(sent[1]) = 3
    /\ sent[1][1] # sent[1][2]
    /\ sinks[1].accepted = sent[1]
    /\ sinks[1].lost = << >>
    /\ outputs[1].buffer = << >>
    /\ ~outputs[1].send_in_progress

\* an Output of this cycle reported blocked
SomeOutputBlocked ==
    \E k \in Polled("output") : cycle[k].res = "NotReady"

\* C4: a cycle in which an Output reports blocked returns NotReady at once: it
\* polls no Timer and no Input and leaves the shared state as it was.
C4_BlockedHaltsCycle ==
    SomeOutputBlocked =>
        /\ pc = "idle"
        /\ result = "NotReady"
        /\ Polled("timer") = {}
        /\ Polled("input") = {}
        /\ state = state0
        /\ cycle[Len(cycle)].res = "NotReady"

\* C4's case: the second Output blocks a cycle while the Timer is due and an item
\* waits in the source.
C4_Witness ==
    /\ SomeOutputBlocked
    /\ Len(cycle) = 2
    /\ Missed(timers[1], current) >= 1
    /\ sources[1].queue # << >>

\* the sink of an Output polled in this cycle rejected a start_send
SomeSinkRejecting ==
    \E k \in Polled("output") : cycle[k].start = "NotReady"

\* C5: in a cycle in which an Output's sink rejects start_send no callback runs:
\* the counting callbacks leave the shared state as it was.
C5_RejectingHaltsCycle ==
    SomeSinkRejecting => state = state0

\* C6: one poll of an Input with k >= 1 items buffered in its source runs the
\* item callback k times.
C6_InputDrainsAll ==
    \A k \in Polled("input") :
        cycle[k].ready >= 1 =>
            state.item_calls[cycle[k].idx] = state0.item_calls[cycle[k].idx] + cycle[k].ready

\* C7: the end callback of an Input runs at most once over the run, and once it
\* has run every poll of that Input reports Closed and runs no callback.
C7_EndOfStreamTerminal ==
    /\ \A i \in 1 .. Len(inputs) : state.end_calls[i] <= 1
    /\ \A k \in Polled("input") :
           state0.end_calls[cycle[k].idx] >= 1 =>
               /\ cycle[k].res = "Closed"
               /\ state.end_calls[cycle[k].idx] = state0.end_calls[cycle[k].idx]
               /\ state.item_calls[cycle[k].idx] = state0.item_calls[cycle[k].idx]

\* C8: the poll of an armed Timer of which one or more activation instants have
\* passed runs the callback exactly once, and leaves next_activation, and a
\* wakeup registered for it, strictly later than the current instant.
C8_TimerCoalescing ==
    \A k \in Polled("timer") :
        cycle[k].missed >= 1 =>
            LET t == cycle[k].idx
            IN  /\ state.timer_calls[t] = state0.timer_calls[t] + 1
                /\ timers[t].next_activation # None
                /\ timers[t].next_activation[1] > current
                /\ \E a \in 1 .. Len(activations) :
                       /\ activations[a].by = t
                       /\ activations[a].when = timers[t].next_activation[1]
                       /\ activations[a].when > current

\* C8's case: three or more periods passed between two polls of a Timer.
C8_Witness ==
    \E k \in Polled("timer") :
        /\ cycle[k].missed >= 3
        /\ state.timer_calls[cycle[k].idx] = state0.timer_calls[cycle[k].idx] + 1

Rank(kind) ==
    CASE kind = "output" -> 1
      [] kind = "timer" -> 2
      [] OTHER -> 3

AllPolled(kind, n) == {cycle[k].idx : k \in Polled(kind)} = 1 .. n

\* C9: within a cycle the Outputs are polled first, then the Timers, then the
\* Inputs: a Timer is polled, and its callback run, only after every Output, and
\* an Input is polled, and its callbacks run, only after every Output and Timer.
C9_FixedPollOrder ==
    /\ \A a, b \in 1 .. Len(cycle) : a < b => Rank(cycle[a].kind) <= Rank(cycle[b].kind)
    /\ (Polled("timer") # {} \/ state.timer_calls # state0.timer_calls) =>
           AllPolled("output", Len(outputs))
    /\ (Polled("input") # {} \/ state.item_calls # state0.item_calls
                             \/ state.end_calls # state0.end_calls) =>
           /\ AllPolled("output", Len(outputs))
           /\ AllPolled("timer", Len(timers))

\* C9's case: a cycle that polled both Outputs, the Timer and the Input, and ran
\* the Timer's callback and the Input's item callback.
C9_Witness ==
    /\ Len(cycle) = 4
    /\ state.timer_calls[1] = state0.timer_calls[1] + 1
    /\ state.item_calls[1] = state0.item_calls[1] + 1

\* nothing will poll the Agent again: it is not running, its task is not
\* notified, and no sink owes it a notification
Quiescent ==
    /\ pc = "idle"
    /\ ~woken
    /\ \A o \in 1 .. Len(sinks) : ~sinks[o].parked

IsPrefix(p, q) == Len(p) <= Len(q) /\ SubSeq(q, 1, Len(p)) = p

\* C10: what the sink of the Passthrough agent has taken is a prefix of what was
\* sent into its source, and once the Agent is quiescent it is all of it.
C10_Passthrough ==
    /\ IsPrefix(sinks[1].accepted, srcSent[1])
    /\ Quiescent => sinks[1].accepted = srcSent[1]

\* C12: at most one value that the sink's start_send accepted awaits its
\* completion, start_send is never called while one does, and the in-progress
\* flag is set exactly while one does.
C12_OneOutstandingSend ==
    \A o \in 1 .. Len(outputs) :
        /\ sinks[o].outstanding <= 1
        /\ ~sinks[o].overlapped
        /\ outputs[o].send_in_progress <=> sinks[o].outstanding = 1

\* C12's case: a poll found the send in progress not complete while two more
\* values wait in the buffer.
C12_Witness ==
    /\ sinks[1].outstanding = 1
    /\ Len(outputs[1].buffer) = 2
    /\ \E k \in Polled("output") : cycle[k].complete = "NotReady"

\* C14: every value handed to send is passed to the sink once, in call order,
\* whether the sink takes it or fails on it, and the values not yet passed are
\* still buffered in order; the in-progress flag is not left set by a failure; a
\* poll in which the sink fails reports Ready, and Agent::poll never an error.
C14_SinkFailuresAbsorbed ==
    /\ result \in {"none", "NotReady", "Ready"}
    /\ \A o \in 1 .. Len(outputs) :
           /\ sinks[o].handed \o outputs[o].buffer = sent[o]
           /\ outputs[o].send_in_progress => sinks[o].outstanding = 1
    /\ \A k \in Polled("output") :
           (cycle[k].complete = "Err" \/ cycle[k].start = "Err") => cycle[k].res = "Ready"

\* C14's case: the first value failed on completion, the same poll started the
\* second, and the third is still buffered.
C14_Witness ==
    /\ Len(sent[1]) = 3
    /\ Len(sinks[1].lost) = 1
    /\ Len(sinks[1].accepted) = 2
    /\ Len(outputs[1].buffer) = 1
    /\ \E k \in Polled("output") : cycle[k].complete = "Err" /\ cycle[k].start = "Ready"

\* the counts 0, 1, ..., n - 1
Counts(n) == [i \in 1 .. n |-> i - 1]

\* the test stands after the turn of its current round
AfterTurn == pc = "idle" /\ result # "none" /\ ~woken

\* C11: in the test `periodic` the advance of each round notifies the Agent, the
\* turn of round i runs the callback exactly once, which makes i callbacks in
\* all, and leaves the value i - 1 in the channel, alone, for the receive of
\* that round; the sink observes 0, 1, 2, ... in order.
C11_PeriodicCounter ==
    /\ sinks[1].accepted = Counts(state.timer_calls[1])
    /\ state.count = state.timer_calls[1]
    /\ (pc = "idle" /\ result # "none" /\ sinks[1].taken < current
           /\ state.timer_calls[1] < current) => woken
    /\ AfterTurn =>
           /\ state.timer_calls[1] = current
           /\ outputs[1].buffer = << >>
           /\ sinks[1].taken \in {current - 1, current} \cap Nat
    /\ (AfterTurn /\ sinks[1].taken < current) =>
           /\ in_channel(sinks[1]) = 1
           /\ sinks[1].accepted[sinks[1].taken + 1] = current - 1

\* C11's case: the ten rounds of the test are done and the tenth took the value 9.
C11_Witness ==
    /\ AfterTurn
    /\ current = 10
    /\ sinks[1].taken = 10
    /\ sinks[1].accepted = Counts(10)
    /\ state.timer_calls[1] = 10

\* C13: an Agent with a Timer never reports completion: no poll of it returns
\* Ready, whatever its Timers' callbacks return, and each of its Timers stays on
\* and reports Ready at every poll.
C13_TimerAgentNeverCompletes ==
    Len(timers) >= 1 =>
        /\ result # "Ready"
        /\ \A t \in 1 .. Len(timers) : timers[t].on
        /\ \A k \in Polled("timer") : cycle[k].res = "Ready"

\* C13's case: a cycle that ran to its end, in which a Timer's callback returned
\* Stop, after that Timer's callback had run before.
C13_Witness ==
    /\ pc = "idle"
    /\ result = "NotReady"
    /\ \E k \in Polled("timer") :
           /\ cycle[k].run = "Stop"
           /\ state.timer_calls[cycle[k].idx] >= 2

\* two entries of a list of activations of one instant stand in the order of
\* their registration
TiesInRegistrationOrder(list) ==
    \A i, j \in 1 .. Len(list) :
        (i < j /\ list[i].when = list[j].when) => list[i].seq < list[j].seq

\* C15: wakeups registered for one instant are kept in the registry, and
\* notified by advance, in the order of their registration.
C15_TieBreaking ==
    /\ TiesInRegistrationOrder(activations)
    /\ TiesInRegistrationOrder(fired)

\* C16: the registry is sorted in non-decreasing order of instant.
C16_RegistrySorted ==
    \A i, j \in 1 .. Len(activations) :
        i < j => activations[i].when <= activations[j].when

\* no Timer and no Input polled in this cycle reported Ready
AllClosed ==
    \A k \in Polled("timer") \cup Polled("input") : cycle[k].res = "Closed"

\* C17: a poll cycle that has returned reports completion if and only if no
\* Output reported blocked and every Timer and Input it polled reported Closed;
\* a cycle in which no Output reported blocked polled every Timer and Input.
C17_CompletionCondition ==
    (pc = "idle" /\ cycle # << >>) =>
        /\ result = "Ready" <=> (~SomeOutputBlocked /\ AllClosed)
        /\ ~SomeOutputBlocked =>
               /\ AllPolled("timer", Len(timers))
               /\ AllPolled("input", Len(inputs))

\* C17's case: an Agent of an Output, no Timer and no Input reports completion
\* in a cycle whose poll of the Output completed one send and started the next,
\* with a value still buffered.
C17_Witness ==
    /\ Len(timers) = 0 /\ Len(inputs) = 0
    /\ pc = "idle"
    /\ result = "Ready"
    /\ \E k \in Polled("output") : cycle[k].complete = "Ready" /\ cycle[k].start = "Ready"
    /\ outputs[1].buffer # << >>

\* every Input had run its end callback when this cycle began
EndedBefore ==
    \A i \in 1 .. Len(inputs) : state0.end_calls[i] >= 1

\* C18: once every Input of an Agent without Timers has reported its end of
\* stream, the Agent reports completion at the next poll that no Output blocks:
\* each Input is closed by then, and the cycle finishes.
C18_TerminatesAfterInputsEnd ==
    (pc = "idle" /\ cycle # << >> /\ EndedBefore /\ ~SomeOutputBlocked) =>
        result = "Ready"

\* the Timer has been polled and is on
Armed(t) == timers[t].on /\ timers[t].next_activation # None

\* the wakeups of the registry that Timer t registered
WakeupsOf(t) == {a \in 1 .. Len(activations) : activations[a].by = t}

FiredPolls == {k \in Polled("timer") : cycle[k].run # "none"}

\* C20 as stated: after a poll in which a Timer's callback ran at the instant t,
\* next_activation is t + period.
C20_NextIsNowPlusPeriod ==
    \A k \in FiredPolls :
        LET tm == timers[cycle[k].idx]
        IN  tm.next_activation = Some(current + tm.period)

\* C20 as amended: after a poll in which a Timer's callback ran at the instant t,
\* next_activation is the first instant later than t among those a whole number
\* of periods past the instant the Timer was due: later than t, by at most one
\* period; it is t + period exactly if t is itself such an instant.
C20_NextIsNextOnGrid ==
    \A k \in FiredPolls :
        LET tm == timers[cycle[k].idx]
            next == tm.next_activation[1]
            due == cycle[k].due[1]
        IN  /\ next > current
            /\ next - tm.period <= current
            /\ (next - due) % tm.period = 0
            /\ next = current + tm.period <=> (current - due) % tm.period = 0

\* C20's case: a Timer of period 2 runs its callback one unit after the instant
\* it was due.
C20_Witness ==
    \E k \in FiredPolls :
        LET tm == timers[cycle[k].idx]
        IN  /\ tm.period = 2
            /\ current = cycle[k].due[1] + 1
            /\ tm.next_activation = Some(current + 1)

=============================================================================
